---- MODULE Spec2Model ----
(***************************************************************************)
(* Model of package hilbert (src/hilbert/hilbert.go): XYToD, DToXY and     *)
(* their shared helper rot, executed statement group by statement group.   *)
(*                                                                         *)
(* Go's int is a fixed-width two's-complement integer whose arithmetic     *)
(* wraps around.  The model keeps the width of the 64-bit targets: an int  *)
(* is a tuple of eight limbs (base 256, least significant first), and      *)
(* every operator of the code (+, -, *, /, &, ^, <, >) is computed on      *)
(* that representation exactly as the machine computes it.  I(i) is the    *)
(* int with the value of a small integer i, Pow2(k) is 2^k, and Val(a) is  *)
(* the value of a small int a: XYToD(I(4), I(1), I(0)) = I(1).             *)
(***************************************************************************)
EXTENDS Integers, Sequences, FiniteSets

(***************************************************************************)
(* The int type.                                                           *)
(***************************************************************************)

\* Width of int in bits.
IntBits == 64

\* Number of base-256 limbs of an int.
Limbs == IntBits \div 8

\* The int whose limbs are F(1), ..., F(Limbs): a tuple of Limbs = 8 limbs.
Mk(F(_)) == <<F(1), F(2), F(3), F(4), F(5), F(6), F(7), F(8)>>

\* The int with the value of the small integer i (|i| < 2^31), sign-extended.
I(i) == Mk(LAMBDA j : IF j <= 4 THEN (i \div (256 ^ (j - 1))) % 256
                      ELSE IF i < 0 THEN 255 ELSE 0)

\* 2^k as an int, for k in 0..IntBits-1 (k = IntBits-1 gives the minimum int).
Pow2(k) == Mk(LAMBDA j : IF j = (k \div 8) + 1 THEN 2 ^ (k % 8) ELSE 0)

Zero == I(0)
One == I(1)
MinInt == Pow2(IntBits - 1)
MaxInt == Mk(LAMBDA j : IF j = Limbs THEN 127 ELSE 255)

IsNeg(a) == a[Limbs] >= 128

\* The value of a as a small integer, for an int a with |a| < 2^31.
Val(a) == (a[1] + 256 * a[2] + 65536 * a[3] + 16777216 * (a[4] % 128))
          - (IF a[4] >= 128 THEN 2147483647 ELSE 0) - (IF a[4] >= 128 THEN 1 ELSE 0)

\* Whether a fits Val.
IsSmall(a) == \/ (\A j \in 5..Limbs : a[j] = 0) /\ a[4] < 128
              \/ (\A j \in 5..Limbs : a[j] = 255) /\ a[4] >= 128

\* Limbs j.. of a + b + c, c the carry into limb j.
RECURSIVE AddFrom(_, _, _, _)
AddFrom(a, b, c, j) ==
    IF j > Limbs THEN <<>>
    ELSE LET v == a[j] + b[j] + c
         IN  <<v % 256>> \o AddFrom(a, b, v \div 256, j + 1)

\* a + b, wrapping.
Add(a, b) == AddFrom(a, b, 0, 1)

\* ~a, the bitwise complement.
Not(a) == Mk(LAMBDA j : 255 - a[j])

\* a - b, wrapping (a + ~b + 1).
Sub(a, b) == AddFrom(a, Not(b), 1, 1)

Neg(a) == Sub(Zero, a)

\* Column k of the schoolbook product: the sum of a[i] * b[k+1-i], i in i..k.
RECURSIVE MulCol(_, _, _, _)
MulCol(a, b, k, i) ==
    IF i > k THEN 0 ELSE a[i] * b[k + 1 - i] + MulCol(a, b, k, i + 1)

\* Limbs k.. of the product, c the carry into limb k.
RECURSIVE MulFrom(_, _, _, _)
MulFrom(a, b, c, k) ==
    IF k > Limbs THEN <<>>
    ELSE LET v == MulCol(a, b, k, 1) + c
         IN  <<v % 256>> \o MulFrom(a, b, v \div 256, k + 1)

\* a * b, wrapping (the low IntBits bits of the product).
Mul(a, b) == MulFrom(a, b, 0, 1)

\* Bitwise and / xor of two limbs.
RECURSIVE AndLimb(_, _)
AndLimb(p, q) ==
    IF p = 0 \/ q = 0 THEN 0
    ELSE (p % 2) * (q % 2) + 2 * AndLimb(p \div 2, q \div 2)

RECURSIVE XorLimb(_, _)
XorLimb(p, q) ==
    IF p = 0 THEN q
    ELSE IF q = 0 THEN p
    ELSE ((p + q) % 2) + 2 * XorLimb(p \div 2, q \div 2)

\* a & b and a ^ b.
And(a, b) == Mk(LAMBDA j : AndLimb(a[j], b[j]))
Xor(a, b) == Mk(LAMBDA j : XorLimb(a[j], b[j]))

\* Unsigned comparison from limb j downwards.
RECURSIVE ULessFrom(_, _, _)
ULessFrom(a, b, j) ==
    IF j = 0 THEN FALSE
    ELSE IF a[j] # b[j] THEN a[j] < b[j]
    ELSE ULessFrom(a, b, j - 1)

\* a < b, signed.
Less(a, b) ==
    IF IsNeg(a) # IsNeg(b) THEN IsNeg(a) ELSE ULessFrom(a, b, Limbs)

Leq(a, b) == a = b \/ Less(a, b)

\* Limbs 1..j of the unsigned quotient of a by the small c, r the remainder
\* carried into limb j.
RECURSIVE UDivFrom(_, _, _, _)
UDivFrom(a, c, r, j) ==
    IF j = 0 THEN <<>>
    ELSE LET v == r * 256 + a[j]
         IN  UDivFrom(a, c, v % c, j - 1) \o <<v \div c>>

\* Unsigned a / c for a small positive divisor c.
UDiv(a, c) == UDivFrom(a, c, 0, Limbs)

\* Go's a / c for a small positive constant c: truncated toward zero.
Quo(a, c) == IF IsNeg(a) THEN Neg(UDiv(Neg(a), c)) ELSE UDiv(a, c)

(***************************************************************************)
(* The code of hilbert.go, one operator per expression or statement group. *)
(* The quadrant bits rx, ry are ints, as in the code.                      *)
(***************************************************************************)

\* rot with the swap left out.
rotNoSwap(n, rx, ry, x, y) ==
    IF ry = Zero /\ rx = One
    THEN <<Sub(Sub(n, One), x), Sub(Sub(n, One), y)>>
    ELSE <<x, y>>

\* rot with the reflection left out.
rotNoReflect(n, rx, ry, x, y) == IF ry = Zero THEN <<y, x>> ELSE <<x, y>>

\* rot reflecting in the quadrant rx = 0 instead of rx = 1.
rotWrongQuadrant(n, rx, ry, x, y) ==
    IF ry = Zero
    THEN IF rx = Zero
         THEN <<Sub(Sub(n, One), y), Sub(Sub(n, One), x)>>
         ELSE <<y, x>>
    ELSE <<x, y>>

\* rot reflecting about n instead of n-1.
rotOffByOne(n, rx, ry, x, y) ==
    IF ry = Zero
    THEN IF rx = One THEN <<Sub(n, y), Sub(n, x)>> ELSE <<y, x>>
    ELSE <<x, y>>

\* rot (lines 61-69); the pair <<x, y>> it leaves in *x, *y.
rot(n, rx, ry, x, y) ==
    IF ry = Zero
    THEN LET r == IF rx = One
                  THEN <<Sub(Sub(n, One), x), Sub(Sub(n, One), y)>>
                  ELSE <<x, y>>
         IN  <<r[2], r[1]>>
    ELSE <<x, y>>

\* XYToD, lines 19-25: var rx int; if x&s > 0 { rx = 1 } (the same for ry, y).
XYToDBit(v, s) == IF Less(Zero, And(v, s)) THEN One ELSE Zero

\* The term with rx and ry exchanged.
XYToDTermSwapped(s, rx, ry) == Mul(Mul(s, s), Xor(Mul(I(3), ry), rx))

\* The term scaled by s instead of s * s.
XYToDTermLinear(s, rx, ry) == Mul(s, Xor(Mul(I(3), rx), ry))

\* XYToD, line 26: the term s * s * ((3 * rx) ^ ry) added to d.
XYToDTerm(s, rx, ry) == Mul(Mul(s, s), Xor(Mul(I(3), rx), ry))

\* XYToD, line 18: the loop's init statement, condition and post statement.
XYToDInit(n) == Quo(n, 2)
XYToDCond(s) == Less(Zero, s)
XYToDPost(s) == Quo(s, 2)

\* DToXY, lines 51-52: rx := 1 & (t/2); ry := 1 & (t ^ rx).
DToXYrx(t) == And(One, Quo(t, 2))

\* ry without the xor: 1 & t.
DToXYryNoXor(t, rx) == And(One, t)

DToXYry(t, rx) == And(One, Xor(t, rx))

\* The offset at twice the scale.
DToXYAccDouble(v, s, r) == Add(v, Mul(Mul(s, I(2)), r))

\* DToXY, lines 54-55: x += s * rx (the same for y, ry).
DToXYAcc(v, s, r) == Add(v, Mul(s, r))

\* DToXY, line 56: t /= 4.
DToXYShift(t) == Quo(t, 4)

\* The condition s <= n.
DToXYCondLeq(s, n) == Leq(s, n)

\* DToXY, line 50: the loop's condition and post statement (its init is s := 1).
DToXYCond(s, n) == Less(s, n)
DToXYPost(s) == Mul(s, I(2))

\* XYToD, lines 19-28: one execution of the loop body and the post statement,
\* from the values <<s, x, y, d>> to the new ones.
XYToDStep(v) ==
    LET ls == v[1]
        lrx == XYToDBit(v[2], ls)
        lry == XYToDBit(v[3], ls)
        r == rot(ls, lrx, lry, v[2], v[3])
    IN  <<XYToDPost(ls), r[1], r[2], Add(v[4], XYToDTerm(ls, lrx, lry))>>

\* XYToD, lines 18-29: the loop from the values v = <<s, x, y, d>>, and the
\* result d.  Defined where the loop terminates.
RECURSIVE XYToDLoop(_)
XYToDLoop(v) == IF ~XYToDCond(v[1]) THEN v[4] ELSE XYToDLoop(XYToDStep(v))

\* XYToD as a function of its arguments.
XYToD(an, cx, cy) == XYToDLoop(<<XYToDInit(an), cx, cy, Zero>>)

\* DToXY, lines 51-56: one execution of the loop body and the post statement,
\* from the values <<s, t, x, y>> to the new ones.
DToXYStep(v) ==
    LET ls == v[1]
        lrx == DToXYrx(v[2])
        lry == DToXYry(v[2], lrx)
        r == rot(ls, lrx, lry, v[3], v[4])
    IN  <<DToXYPost(ls), DToXYShift(v[2]),
          DToXYAcc(r[1], ls, lrx), DToXYAcc(r[2], ls, lry)>>

\* DToXY, lines 50-58: the loop from the values v = <<s, t, x, y>>, and the
\* result <<x, y>>.  Defined where the loop terminates.
RECURSIVE DToXYLoop(_, _)
DToXYLoop(an, v) ==
    IF ~DToXYCond(v[1], an) THEN <<v[3], v[4]>> ELSE DToXYLoop(an, DToXYStep(v))

\* DToXY as a function of its arguments.
DToXY(an, dd) == DToXYLoop(an, <<One, dd, Zero, Zero>>)

(***************************************************************************)
(* One call, step by step.                                                 *)
(*   fn      the function called: "XYToD" or "DToXY"                       *)
(*   pc      position in the function body                                 *)
(*   n, x, y, d, s, t, rx, ry   the parameters, results and locals         *)
(*   ax, ay  the arguments x, y as passed to XYToD (x, y are overwritten)  *)
(*   iters   executions of the loop body so far, saturating at IterCap     *)
(***************************************************************************)
VARIABLES fn, pc, n, x, y, d, s, t, rx, ry, ax, ay, iters

vars == <<fn, pc, n, x, y, d, s, t, rx, ry, ax, ay, iters>>

\* Grids n = 2^k with k <= MaxK are called with every argument.
MaxK == 3

\* Larger grids n = 2^k are called with sampled arguments.
WideK == {31, 32, 62}

\* iters stops counting here.
IterCap == 64

\* The cells of the n x n grid, n = 2^k, k <= MaxK.
Cells(k) == {<<I(i), I(j)>> : i \in 0..(2 ^ k - 1), j \in 0..(2 ^ k - 1)}

\* The distances of the n x n grid, n = 2^k, k <= MaxK.
Dists(k) == {I(i) : i \in 0..(2 ^ (2 * k) - 1)}

\* Sampled coordinates in [0, n-1], n = 2^k.
WideCoords(k) == {Zero, One, Sub(Pow2(k - 1), One), Pow2(k - 1), Sub(Pow2(k), One)}

\* Sampled distances in [0, n^2-1], n = 2^k, as far as an int holds them.
WideDists(k) ==
    {Zero, One, I(2), I(3), I(4), I(14), MaxInt}
    \cup (IF 2 * k < IntBits
          THEN {Pow2(2 * k - 2), Sub(Pow2(2 * k - 1), One), Pow2(2 * k - 1)}
          ELSE {Pow2(IntBits - 2)})

\* Whether d is in [0, n^2-1] for n = 2^k (every d >= 0 is, once n^2 exceeds the ints).
DistOK(k, dd) == /\ Leq(Zero, dd)
                 /\ 2 * k < IntBits - 1 => Less(dd, Pow2(2 * k))

\* The valid calls: <<function, n, x, y, d>>.
ValidCalls ==
    UNION { {<<"XYToD", Pow2(k), c[1], c[2], Zero>> : c \in Cells(k)}
            \cup {<<"DToXY", Pow2(k), Zero, Zero, dd>> : dd \in Dists(k)} : k \in 0..MaxK }
    \cup
    UNION { {<<"XYToD", Pow2(k), cx, cy, Zero>> : cx \in WideCoords(k), cy \in WideCoords(k)}
            \cup {<<"DToXY", Pow2(k), Zero, Zero, dd>> : dd \in {e \in WideDists(k) : DistOK(k, e)}}
            : k \in WideK }

\* Function entry: parameters bound, results and locals zero, the loop's init
\* statement executed (line 18: s := n/2, line 49-50: t := d, s := 1).
Enter(c) ==
    /\ fn = c[1]
    /\ n = c[2]
    /\ ax = c[3]
    /\ ay = c[4]
    /\ x = c[3]
    /\ y = c[4]
    /\ d = c[5]
    /\ t = c[5]
    /\ s = IF c[1] = "XYToD" THEN XYToDInit(c[2]) ELSE One
    /\ rx = Zero
    /\ ry = Zero
    /\ iters = 0
    /\ pc = "for"

Init == \E c \in ValidCalls : Enter(c)

Count(i) == IF i < IterCap THEN i + 1 ELSE i

\* XYToD, lines 18-26: the condition holds; quadrant bits and d += ...
XYToDBody ==
    /\ fn = "XYToD" /\ pc = "for"
    /\ XYToDCond(s)
    /\ rx' = XYToDBit(x, s)
    /\ ry' = XYToDBit(y, s)
    /\ d' = Add(d, XYToDTerm(s, rx', ry'))
    /\ iters' = Count(iters)
    /\ pc' = "rot"
    /\ UNCHANGED <<fn, n, x, y, s, t, ax, ay>>

\* XYToD, line 27: rot(s, rx, ry, &x, &y).
XYToDRot ==
    /\ fn = "XYToD" /\ pc = "rot"
    /\ x' = rot(s, rx, ry, x, y)[1]
    /\ y' = rot(s, rx, ry, x, y)[2]
    /\ pc' = "post"
    /\ UNCHANGED <<fn, n, d, s, t, rx, ry, ax, ay, iters>>

\* XYToD, line 18: the post statement s /= 2.
XYToDNext ==
    /\ fn = "XYToD" /\ pc = "post"
    /\ s' = XYToDPost(s)
    /\ pc' = "for"
    /\ UNCHANGED <<fn, n, x, y, d, t, rx, ry, ax, ay, iters>>

\* XYToD, lines 18 and 29: the condition fails; return d.
XYToDReturn ==
    /\ fn = "XYToD" /\ pc = "for"
    /\ ~XYToDCond(s)
    /\ pc' = "done"
    /\ UNCHANGED <<fn, n, x, y, d, s, t, rx, ry, ax, ay, iters>>

\* DToXY, lines 50-52: the condition holds; quadrant bits.
DToXYBody ==
    /\ fn = "DToXY" /\ pc = "for"
    /\ DToXYCond(s, n)
    /\ rx' = DToXYrx(t)
    /\ ry' = DToXYry(t, rx')
    /\ iters' = Count(iters)
    /\ pc' = "rot"
    /\ UNCHANGED <<fn, n, x, y, d, s, t, ax, ay>>

\* DToXY, line 53: rot(s, rx, ry, &x, &y).
DToXYRot ==
    /\ fn = "DToXY" /\ pc = "rot"
    /\ x' = rot(s, rx, ry, x, y)[1]
    /\ y' = rot(s, rx, ry, x, y)[2]
    /\ pc' = "post"
    /\ UNCHANGED <<fn, n, d, s, t, rx, ry, ax, ay, iters>>

\* DToXY, lines 54-56 and 50: x += s*rx; y += s*ry; t /= 4; post statement s *= 2.
DToXYNext ==
    /\ fn = "DToXY" /\ pc = "post"
    /\ x' = DToXYAcc(x, s, rx)
    /\ y' = DToXYAcc(y, s, ry)
    /\ t' = DToXYShift(t)
    /\ s' = DToXYPost(s)
    /\ pc' = "for"
    /\ UNCHANGED <<fn, n, d, rx, ry, ax, ay, iters>>

\* DToXY, lines 50 and 58: the condition fails; return (x, y).
DToXYReturn ==
    /\ fn = "DToXY" /\ pc = "for"
    /\ ~DToXYCond(s, n)
    /\ pc' = "done"
    /\ UNCHANGED <<fn, n, x, y, d, s, t, rx, ry, ax, ay, iters>>

Next ==
    \/ XYToDBody
    \/ XYToDRot
    \/ XYToDNext
    \/ XYToDReturn
    \/ DToXYBody
    \/ DToXYRot
    \/ DToXYNext
    \/ DToXYReturn

\* Calls with valid arguments.
Spec == Init /\ [][Next]_vars

(***************************************************************************)
(* Calls with arbitrary arguments, valid or not.  The code is sequential:  *)
(* a call that has not returned takes its next step.                       *)
(***************************************************************************)
AnyN == {MinInt, I(-8), I(-1), Zero, One, I(2), I(3), I(6), I(8),
         Pow2(31), Pow2(IntBits - 2), Add(Pow2(IntBits - 2), One), MaxInt}

AnyXY == {MinInt, I(-1), I(5), MaxInt}

AnyD == {MinInt, I(-1), Zero, I(7), Pow2(40), MaxInt}

AnyCalls ==
    {<<"XYToD", m, cx, cy, Zero>> : m \in AnyN, cx \in AnyXY, cy \in AnyXY}
    \cup {<<"DToXY", m, Zero, Zero, dd>> : m \in AnyN, dd \in AnyD}

InitAny == \E c \in AnyCalls : Enter(c)

\* A call that has not returned executes its next statement, which moves the
\* program counter.  In every reachable state with pc # "done" one action of
\* Next is enabled and every step of Next changes pc, so weak fairness of
\* Advance on pc is weak fairness of Next.
Advance == pc # "done" /\ pc' \in {"for", "rot", "post", "done"} /\ pc' # pc

TotalSpec == InitAny /\ [][Next]_vars /\ WF_pc(Advance)

(***************************************************************************)
(* Vocabulary of the properties.                                           *)
(***************************************************************************)

IsPow2(m) == \E k \in 0..(IntBits - 2) : m = Pow2(k)
Log2(m) == CHOOSE k \in 0..(IntBits - 2) : m = Pow2(k)

\* lo <= v <= hi.
InRange(lo, v, hi) == Leq(lo, v) /\ Leq(v, hi)

\* n^2 - 1 is an int: n <= 2^31.
SquareFits(m) == Leq(m, Pow2((IntBits - 1) \div 2))

\* n^2 - 1 for n = 2^k with SquareFits.
LastDist(m) == Sub(Pow2(2 * Log2(m)), One)

\* p and q are cells at Euclidean distance exactly 1.
Adjacent(p, q) ==
    \/ p[1] = q[1] /\ (q[2] = Add(p[2], One) \/ p[2] = Add(q[2], One))
    \/ p[2] = q[2] /\ (q[1] = Add(p[1], One) \/ p[1] = Add(q[1], One))

XYDone == fn = "XYToD" /\ pc = "done"
DXYDone == fn = "DToXY" /\ pc = "done"

\* The distances XYToD gives the cells of the n x n grid, n = 2^k, k <= MaxK.
Image(k) == {XYToD(Pow2(k), c[1], c[2]) : c \in Cells(k)}

(***************************************************************************)
(* The properties.                                                         *)
(***************************************************************************)

\* C1 as stated: for every power-of-two n and every x, y in [0, n-1],
\* DToXY(n, XYToD(n, x, y)) = (x, y).
C1_RoundTripXY_EveryN == XYDone => DToXY(n, d) = <<ax, ay>>

\* C1, amended: for every power-of-two n whose n^2 - 1 is an int (n <= 2^31)
\* and every x, y in [0, n-1], DToXY(n, XYToD(n, x, y)) = (x, y).
C1_RoundTripXY == (XYDone /\ SquareFits(n)) => DToXY(n, d) = <<ax, ay>>

\* A finished XYToD(8, 5, 3) whose result DToXY maps back to (5, 3).
C1_Witness ==
    /\ XYDone /\ n = I(8) /\ ax = I(5) /\ ay = I(3)
    /\ d # Zero /\ DToXY(n, d) = <<I(5), I(3)>>

\* C2: for every power-of-two n and every d in [0, n^2-1],
\* XYToD(n, x, y) = d where (x, y) = DToXY(n, d).
C2_RoundTripD == DXYDone => XYToD(n, x, y) = d

\* A finished DToXY(8, 37) whose result XYToD maps back to 37.
C2_Witness ==
    /\ DXYDone /\ n = I(8) /\ d = I(37)
    /\ <<x, y>> # <<Zero, Zero>> /\ XYToD(n, x, y) = I(37)

\* The parts of C3 at a finished XYToD(n, ax, ay) = d, n = 2^k: d is in
\* [0, n^2-1]; and on the grids called with every cell (k <= MaxK), stated
\* once per grid at the call for cell (0, 0), the n^2 cells take exactly the
\* n^2 distances of [0, n^2-1], so that no two cells share one.
Bijection ==
    LET k == Log2(n)
    IN  /\ DistOK(k, d)
        /\ (k <= MaxK /\ <<ax, ay>> = <<Zero, Zero>>)
            => /\ Image(k) = Dists(k)
               /\ Cardinality(Cells(k)) = Cardinality(Dists(k))

\* C3 as stated: for every power-of-two n, XYToD(n, ., .) is a bijection from
\* the cells onto [0, n^2-1].
C3_Bijection_EveryN == XYDone => Bijection

\* C3, amended: for every power-of-two n whose n^2 - 1 is an int (n <= 2^31),
\* XYToD(n, ., .) is a bijection from the cells onto [0, n^2-1].
C3_Bijection == (XYDone /\ SquareFits(n)) => Bijection

\* A finished XYToD(8, 0, 0) on a grid whose 64 cells take 64 distances.
C3_Witness ==
    /\ XYDone /\ n = I(8) /\ <<ax, ay>> = <<Zero, Zero>>
    /\ Cardinality(Image(3)) = 64 /\ I(63) \in Image(3)

\* C4: for every power-of-two n >= 2 and every d in [0, n^2-2], the cells
\* DToXY(n, d) and DToXY(n, d+1) are at Euclidean distance exactly 1.
C4_Locality ==
    (DXYDone /\ d # MaxInt /\ DistOK(Log2(n), Add(d, One)))
        => Adjacent(<<x, y>>, DToXY(n, Add(d, One)))

\* A finished DToXY(8, 15) = (0, 3); DToXY(8, 16) = (0, 4) crosses into the
\* next quadrant.
C4_Witness ==
    /\ DXYDone /\ n = I(8) /\ d = I(15) /\ <<x, y>> = <<Zero, I(3)>>
    /\ DToXY(n, I(16)) = <<Zero, I(4)>>

\* The first five cells of the curve for n = 4 are c0..c4, in both directions.
CurveStart(c0, c1, c2, c3, c4) ==
    LET cell == <<c0, c1, c2, c3, c4>>
    IN  /\ (DXYDone /\ n = I(4) /\ IsSmall(d) /\ Val(d) \in 0..4)
            => <<x, y>> = <<I(cell[Val(d) + 1][1]), I(cell[Val(d) + 1][2])>>
        /\ \A i \in 0..4 :
            (XYDone /\ n = I(4) /\ <<ax, ay>> = <<I(cell[i + 1][1]), I(cell[i + 1][2])>>)
                => d = I(i)

\* C5 as stated: for n = 4, d = 0, 1, 2, 3, 4 are the cells (0,0), (0,1),
\* (1,1), (1,0), (2,0), and XYToD maps these cells back to 0..4.
C5_CurveShape_AsStated == CurveStart(<<0, 0>>, <<0, 1>>, <<1, 1>>, <<1, 0>>, <<2, 0>>)

\* C5, amended: for n = 4, d = 0, 1, 2, 3, 4 are the cells (0,0), (1,0),
\* (1,1), (0,1), (0,2), and XYToD maps these cells back to 0..4.
C5_CurveShape == CurveStart(<<0, 0>>, <<1, 0>>, <<1, 1>>, <<0, 1>>, <<0, 2>>)

\* A finished DToXY(4, 4) = (0, 2).
C5_Witness == DXYDone /\ n = I(4) /\ d = I(4) /\ <<x, y>> = <<Zero, I(2)>>

\* C6: for every power-of-two n, d = n^2-1 is the upper right-hand corner:
\* DToXY(n, n^2-1) = (n-1, n-1) and XYToD(n, n-1, n-1) = n^2-1.
C6_EndUpperRight ==
    /\ (DXYDone /\ SquareFits(n) /\ d = LastDist(n))
        => <<x, y>> = <<Sub(n, One), Sub(n, One)>>
    /\ (XYDone /\ SquareFits(n) /\ <<ax, ay>> = <<Sub(n, One), Sub(n, One)>>)
        => d = LastDist(n)

\* C7: for every power-of-two n, DToXY(n, 0) = (0, 0) and XYToD(n, 0, 0) = 0;
\* for n = 1 neither loop body runs, (0, 0) maps to 0 and 0 maps to (0, 0).
C7_StartLowerLeft ==
    /\ (DXYDone /\ d = Zero) => <<x, y>> = <<Zero, Zero>>
    /\ (XYDone /\ <<ax, ay>> = <<Zero, Zero>>) => d = Zero
    /\ (pc = "done" /\ n = One) => iters = 0 /\ d = Zero /\ <<x, y>> = <<Zero, Zero>>

\* A finished DToXY(8, 0), whose loop body ran three times.
C7_Witness == DXYDone /\ n = I(8) /\ d = Zero /\ iters = 3 /\ <<x, y>> = <<Zero, Zero>>

\* C8: for every power-of-two n and every d in [0, n^2-1], DToXY returns x, y
\* in [0, n-1]; and after the loop iteration for scale s both are in
\* [0, 2s-1] (at the loop head the post statement has made 2s the new s).
C8_OutputRange ==
    /\ DXYDone => InRange(Zero, x, Sub(n, One)) /\ InRange(Zero, y, Sub(n, One))
    /\ (fn = "DToXY" /\ pc = "for")
        => InRange(Zero, x, Sub(s, One)) /\ InRange(Zero, y, Sub(s, One))

\* DToXY(8, 63) at the loop head after the iteration for scale 2, with both
\* coordinates at the top of the range [0, 3].
C8_Witness ==
    /\ fn = "DToXY" /\ pc = "for" /\ n = I(8) /\ d = I(63)
    /\ s = I(4) /\ iters = 2 /\ x = I(3) /\ y = Zero

\* Termination of every call.
Terminates == <>(pc = "done")

\* C9: every call of XYToD and of DToXY terminates, for every value of n, x,
\* y, d of the int type; for n = 2^k each loop runs exactly k times.  The code
\* breaks it: in DToXY with n > 2^(IntBits-2) the scale s doubles up to
\* 2^(IntBits-2) < n, wraps to the minimum int and then to 0, and s < n holds
\* forever, as in DToXY(2^62+1, 0).
C9_Total_AsStated ==
    /\ Terminates
    /\ [](pc = "done" /\ IsPow2(n) => iters = Log2(n))

\* The calls that do terminate: every call of XYToD, for every n, x, y of the
\* int type, and every call of DToXY with n <= 2^(IntBits-2), which includes
\* every power of two; for n = 2^k each loop runs exactly k times.
TerminatingCalls ==
    /\ (fn = "XYToD" \/ Leq(n, Pow2(IntBits - 2))) ~> (pc = "done")
    /\ [](pc = "done" /\ IsPow2(n) => iters = Log2(n))

\* A finished XYToD with the maximum int for n and out-of-range x, y.
TerminatingCalls_Witness ==
    /\ XYDone /\ n = MaxInt /\ ax = MinInt /\ ay = I(-1) /\ iters = IntBits - 2

\* The pair rot is called with (pc = "rot") and the pair it leaves
\* (pc = "post") are in [0, s-1].
RotInRange ==
    pc \in {"rot", "post"}
        => InRange(Zero, x, Sub(s, One)) /\ InRange(Zero, y, Sub(s, One))

\* C10 as stated: on valid inputs, every time XYToD or DToXY calls rot with
\* scale s the pair passed in and the pair rot leaves are in [0, s-1].
C10_RotRange_AsStated == RotInRange

\* C10, amended: on valid inputs, every time DToXY calls rot with scale s the
\* pair passed in and the pair rot leaves are in [0, s-1].
C10_RotRange == fn = "DToXY" => RotInRange

\* DToXY(8, 63) after rot reflected and swapped (1, 0) at scale 2.
C10_Witness ==
    /\ fn = "DToXY" /\ pc = "post" /\ n = I(8) /\ d = I(63) /\ s = I(2)
    /\ rx = One /\ ry = Zero /\ <<x, y>> = <<One, Zero>>
====
